---- MODULE Spec2Model ----
(***************************************************************************)
(* Model of package playstore (src/playstore/validator.go):                *)
(*   - VerifySignature, the offline check of an in-app-billing receipt     *)
(*     against a detached RSA signature, one action per statement;         *)
(*   - the seven Client operations, each a construction of the publisher   *)
(*     service followed by one remote call.                                *)
(*                                                                         *)
(* The library calls VerifySignature makes are modelled by what they       *)
(* compute, on a reduced scale: a string is a sequence of character codes  *)
(* (0..63 the standard base64 alphabet in order, 64 the padding '=', 65    *)
(* the URL-safe '-' that the standard alphabet does not hold), a byte is   *)
(* 0..255, a subject-public-key-info structure is five bytes, an RSA       *)
(* modulus has 12 bits (a two-byte signature), and the digest has 4 bits.  *)
(***************************************************************************)
EXTENDS Integers, Sequences, FiniteSets, TLC

(***************************************************************************)
(* Bounds of the model.                                                    *)
(***************************************************************************)
\* receipts are byte sequences of at most this length
MaxReceiptLen == 2
\* concurrent callers of VerifySignature in ConcSpec
NCallers == 2

(***************************************************************************)
(* encoding/base64, StdEncoding (padded, standard alphabet).               *)
(***************************************************************************)
PadChar == 64

IsB64Digit(ch) == ch \in 0..63

\* the three bytes of a full quantum of four digits
QuantumBytes(q) ==
  LET v == ((q[1] * 64 + q[2]) * 64 + q[3]) * 64 + q[4]
  IN  << v \div 65536, (v \div 256) % 256, v % 256 >>

\* the last quantum: dddd, ddd= or dd== (trailing bits are dropped, the
\* decoder is not strict); anything else is corrupt input
LastQuantum(q) ==
  IF IsB64Digit(q[1]) /\ IsB64Digit(q[2]) /\ IsB64Digit(q[3]) /\ IsB64Digit(q[4])
    THEN [err |-> FALSE, bytes |-> QuantumBytes(q)]
  ELSE IF IsB64Digit(q[1]) /\ IsB64Digit(q[2]) /\ IsB64Digit(q[3]) /\ q[4] = PadChar
    THEN [err |-> FALSE,
          bytes |-> LET v == (q[1] * 64 + q[2]) * 64 + q[3]
                    IN  << v \div 1024, (v \div 4) % 256 >>]
  ELSE IF IsB64Digit(q[1]) /\ IsB64Digit(q[2]) /\ q[3] = PadChar /\ q[4] = PadChar
    THEN [err |-> FALSE, bytes |-> << (q[1] * 64 + q[2]) \div 16 >>]
  ELSE [err |-> TRUE, bytes |-> << >>]

RECURSIVE DecodeQuanta(_)
DecodeQuanta(s) ==
  IF Len(s) = 0 THEN [err |-> FALSE, bytes |-> << >>]
  ELSE IF Len(s) = 4 THEN LastQuantum(s)
  ELSE LET q == SubSeq(s, 1, 4)
       IN  IF \E i \in 1..4 : ~IsB64Digit(q[i])
             THEN [err |-> TRUE, bytes |-> << >>]
             ELSE LET rest == DecodeQuanta(SubSeq(s, 5, Len(s)))
                  IN  IF rest.err THEN rest
                      ELSE [err |-> FALSE, bytes |-> QuantumBytes(q) \o rest.bytes]

\* base64.StdEncoding.DecodeString
StdDecodeString(s) ==
  IF Len(s) % 4 # 0 THEN [err |-> TRUE, bytes |-> << >>]
  ELSE DecodeQuanta(s)

\* base64.StdEncoding.EncodeToString, what the signer and the key's
\* publisher apply
RECURSIVE StdEncodeToString(_)
StdEncodeToString(b) ==
  IF Len(b) = 0 THEN << >>
  ELSE IF Len(b) = 1
    THEN << b[1] \div 4, (b[1] % 4) * 16, PadChar, PadChar >>
  ELSE IF Len(b) = 2
    THEN << b[1] \div 4, (b[1] % 4) * 16 + b[2] \div 16, (b[2] % 16) * 4, PadChar >>
  ELSE << b[1] \div 4, (b[1] % 4) * 16 + b[2] \div 16,
          (b[2] % 16) * 4 + b[3] \div 64, b[3] % 64 >>
       \o StdEncodeToString(SubSeq(b, 4, Len(b)))

(***************************************************************************)
(* crypto/x509, PKIX public keys: SEQUENCE tag, algorithm, key material.   *)
(***************************************************************************)
SequenceTag == 48
AlgRSA == 1
AlgECDSA == 2

NoKey == [alg |-> "none", N |-> 0, E |-> 0]

\* x509.MarshalPKIXPublicKey, what the key's publisher applies
MarshalPKIXPublicKey(k) ==
  << SequenceTag, IF k.alg = "rsa" THEN AlgRSA ELSE AlgECDSA,
     k.N \div 256, k.N % 256, k.E >>

\* x509.ParsePKIXPublicKey: the structure must be exactly one SEQUENCE with
\* no trailing data, of a known algorithm; an RSA key needs a positive
\* modulus and a positive exponent
ParsePKIXPublicKey(der) ==
  IF Len(der) # 5 \/ der[1] # SequenceTag
    THEN [err |-> TRUE, key |-> NoKey]
  ELSE IF der[2] = AlgRSA
    THEN IF der[3] * 256 + der[4] = 0 \/ der[5] = 0
           THEN [err |-> TRUE, key |-> NoKey]
           ELSE [err |-> FALSE,
                 key |-> [alg |-> "rsa", N |-> der[3] * 256 + der[4], E |-> der[5]]]
  ELSE IF der[2] = AlgECDSA
    THEN [err |-> FALSE,
          key |-> [alg |-> "ecdsa", N |-> der[3] * 256 + der[4], E |-> der[5]]]
  ELSE [err |-> TRUE, key |-> NoKey]

\* publicKey, _ := publicKeyInterface.(*rsa.PublicKey): the two-value form
\* never fails, it yields the nil pointer for any other dynamic type
NilKey == [alg |-> "nil", N |-> 0, E |-> 0]
AssertRSA(k) == IF k.alg = "rsa" THEN k ELSE NilKey

(***************************************************************************)
(* crypto/sha1: a hash.Hash is a chaining value and the length absorbed.   *)
(***************************************************************************)
SHA1New == [h |-> 7, len |-> 0]

RECURSIVE SHA1Write(_, _)
SHA1Write(d, p) ==
  IF Len(p) = 0 THEN d
  ELSE SHA1Write([h |-> (d.h * 5 + p[1] + 1) % 16, len |-> d.len + 1],
                 SubSeq(p, 2, Len(p)))

\* Sum(nil): the digest of everything written, the length folded in
SHA1Sum(d) == (d.h + 3 * d.len) % 16

(***************************************************************************)
(* crypto/rsa, PKCS#1 v1.5 signatures.                                     *)
(***************************************************************************)
RECURSIVE ModExp(_, _, _)
ModExp(b, e, n) ==
  IF e = 0 THEN 1 % n
  ELSE LET h  == ModExp(b, e \div 2, n)
           sq == (h * h) % n
       IN  IF e % 2 = 1 THEN (sq * (b % n)) % n ELSE sq

RECURSIVE BitLen(_)
BitLen(n) == IF n = 0 THEN 0 ELSE 1 + BitLen(n \div 2)

\* (*rsa.PublicKey).Size: the modulus size in bytes
KeySize(pub) == (BitLen(pub.N) + 7) \div 8

\* the encoded message: block type 01, then the SHA-1 identifier (0x5 in the
\* high half of the last byte) and the digest
SHA1Prefix == 80
EncodedMessage(hashed) == << 1, SHA1Prefix + hashed >>

BytesToInt(b) == b[1] * 256 + b[2]
IntToBytes(m) == << m \div 256, m % 256 >>

\* rsa.VerifyPKCS1v15(pub, crypto.SHA1, hashed, sig) for a non-nil pub:
\* TRUE when it returns nil, FALSE when it returns ErrVerification
VerifyPKCS1v15(pub, hashed, sig) ==
  /\ KeySize(pub) = 2
  /\ Len(sig) = KeySize(pub)
  /\ BytesToInt(sig) < pub.N
  /\ IntToBytes(ModExp(BytesToInt(sig), pub.E, pub.N)) = EncodedMessage(hashed)

\* rsa.SignPKCS1v15, what the store applies with the private exponent D
SignPKCS1v15(priv, hashed) ==
  IntToBytes(ModExp(BytesToInt(EncodedMessage(hashed)), priv.D, priv.N))

(***************************************************************************)
(* The callers' side: key pairs, receipts and the strings a caller may     *)
(* pass.  The signer (the store) and the key's publisher are outside the   *)
(* package; they produce the genuine inputs.                               *)
(***************************************************************************)
KeyPairs == { [N |-> 3233, E |-> 17, D |-> 2753],
              [N |-> 2773, E |-> 17, D |-> 157] }

PublicKey(kp) == [alg |-> "rsa", N |-> kp.N, E |-> kp.E]

ECKey == [alg |-> "ecdsa", N |-> 1027, E |-> 7]

\* the digest of a whole byte sequence
SHA1(p) == SHA1Sum(SHA1Write(SHA1New, p))

KeyString(k) == StdEncodeToString(MarshalPKIXPublicKey(k))
GenuineSignature(kp, receipt) == SignPKCS1v15(kp, SHA1(receipt))

ReceiptBytes == {97, 98}

RECURSIVE SeqsUpTo(_, _)
SeqsUpTo(S, n) ==
  IF n = 0 THEN { << >> }
  ELSE LET shorter == SeqsUpTo(S, n - 1)
       IN  shorter \cup { Append(q, x) : q \in { r \in shorter : Len(r) = n - 1 }, x \in S }

Receipts == SeqsUpTo(ReceiptBytes, MaxReceiptLen)

\* byte sequences that are no RSA key: empty, arbitrary bytes, a truncated
\* structure, trailing data, an unknown algorithm, a zero modulus, a zero
\* exponent, a wrong tag
NonKeyBytes == { << >>, <<1, 2, 3>>, <<48, 1, 12, 161>>, <<48, 1, 12, 161, 17, 0>>,
                 <<48, 3, 12, 161, 17>>, <<48, 1, 0, 0, 17>>, <<48, 1, 12, 161, 0>>,
                 <<49, 1, 12, 161, 17>> }

\* a parsable RSA key whose modulus is too short for any signature
ShortKey == [alg |-> "rsa", N |-> 187, E |-> 3]

\* strings that are not standard base64: a URL-safe character, the padding
\* left off, a lone digit, padding in the middle, a length that is no
\* multiple of four
BadBase64 == { <<65, 0, 4, 12, 40, 17, 4, PadChar>>,
               <<12, 0, 4, 12, 40, 17, 4>>,
               <<12, PadChar, PadChar, PadChar>>,
               <<12, 0, PadChar, PadChar, 12, 0, 4, 12>>,
               <<12, 0, 4, 12, 40>> }

KeyStrings ==
  { KeyString(PublicKey(kp)) : kp \in KeyPairs }
    \cup { KeyString(ECKey), KeyString(ShortKey) }
    \cup { StdEncodeToString(b) : b \in NonKeyBytes }
    \cup BadBase64

GenuineSignatures == { GenuineSignature(kp, r) : kp \in KeyPairs, r \in Receipts }

\* one byte of a signature changed
MutateByte(sig, i) == [sig EXCEPT ![i] = (sig[i] + 1) % 256]

SignatureBytes ==
  GenuineSignatures
    \cup { MutateByte(sig, i) : sig \in GenuineSignatures, i \in 1..2 }
    \cup { << >>, <<10>>, <<10, 7, 0>> }

SigStrings == { StdEncodeToString(b) : b \in SignatureBytes } \cup BadBase64

(***************************************************************************)
(* State.                                                                  *)
(***************************************************************************)
VARIABLES
  pc,        \* pc[c]: the statement caller c's call of VerifySignature is at
  frame,     \* frame[c]: the arguments, locals and results of that call
  hashers,   \* hashers[h]: the hash.Hash objects made by sha1.New()
  observed,  \* a completed call a caller has recorded (arguments and results)
  cpc,       \* the statement the Client operation is at
  cframe,    \* its operation, arguments, service and results
  remote     \* the remote calls issued to the publisher API, in order

vars == << pc, frame, hashers, observed, cpc, cframe, remote >>
verifyVars == << pc, frame, hashers, observed >>
clientVars == << cpc, cframe, remote >>

NoError == "nil"
ErrDecodeKey == "failed to decode public key"
ErrParseKey == "failed to parse public key"
ErrDecodeSignature == "failed to decode signature"

IdleFrame ==
  [ base64EncodedPublicKey |-> << >>, receipt |-> << >>, signature |-> << >>,
    decodedPublicKey |-> << >>, publicKeyInterface |-> NoKey, publicKey |-> NoKey,
    hashedReceipt |-> 0, decodedSignature |-> << >>,
    isValid |-> FALSE, err |-> NoError, steps |-> << >> ]

NoHasher == [h |-> 0, len |-> 0]
Nothing == [set |-> FALSE]

\* mutant: one package-level hasher used by every call
HasherOf_Shared(c) == 1

\* hasher := sha1.New() makes an object of the call's own
HasherOf(c) == c

Step(c, name) == Append(frame[c].steps, name)

\* a call of VerifySignature(base64EncodedPublicKey, receipt, signature)
Call(c, keys, receipts, sigs) ==
  /\ pc[c] = "idle"
  /\ \E k \in keys, r \in receipts, s \in sigs :
       frame' = [frame EXCEPT ![c] =
                   [IdleFrame EXCEPT !.base64EncodedPublicKey = k,
                                     !.receipt = r, !.signature = s]]
  /\ pc' = [pc EXCEPT ![c] = "decodeKey"]
  /\ UNCHANGED << hashers, observed, clientVars >>

\* mutant: the decode error is dropped and the call goes on with what was
\* decoded
DecodeKey_ErrorIgnored(c) ==
  /\ pc[c] = "decodeKey"
  /\ frame' = [frame EXCEPT
                 ![c].decodedPublicKey =
                     StdDecodeString(frame[c].base64EncodedPublicKey).bytes,
                 ![c].steps = Step(c, "decodeKey")]
  /\ pc' = [pc EXCEPT ![c] = "parseKey"]
  /\ UNCHANGED << hashers, observed, clientVars >>

\* decodedPublicKey, err := base64.StdEncoding.DecodeString(base64EncodedPublicKey)
DecodeKey(c) ==
  /\ pc[c] = "decodeKey"
  /\ LET d == StdDecodeString(frame[c].base64EncodedPublicKey)
     IN  IF d.err
           THEN /\ frame' = [frame EXCEPT ![c].isValid = FALSE,
                                          ![c].err = ErrDecodeKey,
                                          ![c].steps = Step(c, "decodeKey")]
                /\ pc' = [pc EXCEPT ![c] = "done"]
           ELSE /\ frame' = [frame EXCEPT ![c].decodedPublicKey = d.bytes,
                                          ![c].steps = Step(c, "decodeKey")]
                /\ pc' = [pc EXCEPT ![c] = "parseKey"]
  /\ UNCHANGED << hashers, observed, clientVars >>

\* mutant: the parse error is dropped and the call goes on with no key
ParseKey_ErrorIgnored(c) ==
  /\ pc[c] = "parseKey"
  /\ frame' = [frame EXCEPT
                 ![c].publicKeyInterface =
                     ParsePKIXPublicKey(frame[c].decodedPublicKey).key,
                 ![c].steps = Step(c, "parseKey")]
  /\ pc' = [pc EXCEPT ![c] = "assertKey"]
  /\ UNCHANGED << hashers, observed, clientVars >>

\* publicKeyInterface, err := x509.ParsePKIXPublicKey(decodedPublicKey)
ParseKey(c) ==
  /\ pc[c] = "parseKey"
  /\ LET p == ParsePKIXPublicKey(frame[c].decodedPublicKey)
     IN  IF p.err
           THEN /\ frame' = [frame EXCEPT ![c].isValid = FALSE,
                                          ![c].err = ErrParseKey,
                                          ![c].steps = Step(c, "parseKey")]
                /\ pc' = [pc EXCEPT ![c] = "done"]
           ELSE /\ frame' = [frame EXCEPT ![c].publicKeyInterface = p.key,
                                          ![c].steps = Step(c, "parseKey")]
                /\ pc' = [pc EXCEPT ![c] = "assertKey"]
  /\ UNCHANGED << hashers, observed, clientVars >>

\* publicKey, _ := publicKeyInterface.(*rsa.PublicKey)
AssertKey(c) ==
  /\ pc[c] = "assertKey"
  /\ frame' = [frame EXCEPT ![c].publicKey = AssertRSA(frame[c].publicKeyInterface),
                            ![c].steps = Step(c, "assertKey")]
  /\ pc' = [pc EXCEPT ![c] = "hashNew"]
  /\ UNCHANGED << hashers, observed, clientVars >>

\* hasher := sha1.New()
HashNew(c) ==
  /\ pc[c] = "hashNew"
  /\ hashers' = [hashers EXCEPT ![HasherOf(c)] = SHA1New]
  /\ frame' = [frame EXCEPT ![c].steps = Step(c, "hashNew")]
  /\ pc' = [pc EXCEPT ![c] = "hashWrite"]
  /\ UNCHANGED << observed, clientVars >>

\* mutant: the receipt is never written to the hasher
HashWrite_Skipped(c) ==
  /\ pc[c] = "hashWrite"
  /\ frame' = [frame EXCEPT ![c].steps = Step(c, "hashWrite")]
  /\ pc' = [pc EXCEPT ![c] = "hashSum"]
  /\ UNCHANGED << hashers, observed, clientVars >>

\* hasher.Write(receipt)
HashWrite(c) ==
  /\ pc[c] = "hashWrite"
  /\ hashers' = [hashers EXCEPT ![HasherOf(c)] = SHA1Write(@, frame[c].receipt)]
  /\ frame' = [frame EXCEPT ![c].steps = Step(c, "hashWrite")]
  /\ pc' = [pc EXCEPT ![c] = "hashSum"]
  /\ UNCHANGED << observed, clientVars >>

\* hashedReceipt := hasher.Sum(nil)
HashSum(c) ==
  /\ pc[c] = "hashSum"
  /\ frame' = [frame EXCEPT ![c].hashedReceipt = SHA1Sum(hashers[HasherOf(c)]),
                            ![c].steps = Step(c, "hashSum")]
  /\ pc' = [pc EXCEPT ![c] = "decodeSig"]
  /\ UNCHANGED << hashers, observed, clientVars >>

\* mutant: the decode error is dropped and the call goes on to the check
DecodeSignature_ErrorIgnored(c) ==
  /\ pc[c] = "decodeSig"
  /\ frame' = [frame EXCEPT
                 ![c].decodedSignature = StdDecodeString(frame[c].signature).bytes,
                 ![c].steps = Step(c, "decodeSig")]
  /\ pc' = [pc EXCEPT ![c] = "verify"]
  /\ UNCHANGED << hashers, observed, clientVars >>

\* decodedSignature, err := base64.StdEncoding.DecodeString(signature)
DecodeSignature(c) ==
  /\ pc[c] = "decodeSig"
  /\ LET d == StdDecodeString(frame[c].signature)
     IN  IF d.err
           THEN /\ frame' = [frame EXCEPT ![c].isValid = FALSE,
                                          ![c].err = ErrDecodeSignature,
                                          ![c].steps = Step(c, "decodeSig")]
                /\ pc' = [pc EXCEPT ![c] = "done"]
           ELSE /\ frame' = [frame EXCEPT ![c].decodedSignature = d.bytes,
                                          ![c].steps = Step(c, "decodeSig")]
                /\ pc' = [pc EXCEPT ![c] = "verify"]
  /\ UNCHANGED << hashers, observed, clientVars >>

\* mutant: a failed check is returned as an error (return false, err)
Verify_MismatchIsError(c) ==
  /\ pc[c] = "verify"
  /\ IF frame[c].publicKey = NilKey
       THEN /\ frame' = [frame EXCEPT ![c].steps = Step(c, "verify")]
            /\ pc' = [pc EXCEPT ![c] = "panic"]
       ELSE LET ok == VerifyPKCS1v15(frame[c].publicKey, frame[c].hashedReceipt,
                                     frame[c].decodedSignature)
            IN  /\ frame' = [frame EXCEPT
                               ![c].isValid = ok,
                               ![c].err = IF ok THEN NoError
                                          ELSE "crypto/rsa: verification error",
                               ![c].steps = Step(c, "verify")]
                /\ pc' = [pc EXCEPT ![c] = "done"]
  /\ UNCHANGED << hashers, observed, clientVars >>

\* if err := rsa.VerifyPKCS1v15(publicKey, crypto.SHA1, hashedReceipt,
\* decodedSignature); err != nil { return false, nil }; return true, nil.
\* VerifyPKCS1v15 reads the modulus through its pub argument first: with the
\* nil pointer the call panics (nil pointer dereference) and nothing returns.
Verify(c) ==
  /\ pc[c] = "verify"
  /\ IF frame[c].publicKey = NilKey
       THEN /\ frame' = [frame EXCEPT ![c].steps = Step(c, "verify")]
            /\ pc' = [pc EXCEPT ![c] = "panic"]
       ELSE /\ frame' = [frame EXCEPT
                           ![c].isValid = VerifyPKCS1v15(frame[c].publicKey,
                                                         frame[c].hashedReceipt,
                                                         frame[c].decodedSignature),
                           ![c].err = NoError,
                           ![c].steps = Step(c, "verify")]
            /\ pc' = [pc EXCEPT ![c] = "done"]
  /\ UNCHANGED << hashers, observed, clientVars >>

Observation(c) ==
  [ set |-> TRUE,
    base64EncodedPublicKey |-> frame[c].base64EncodedPublicKey,
    receipt |-> frame[c].receipt, signature |-> frame[c].signature,
    isValid |-> frame[c].isValid, err |-> frame[c].err ]

\* the call has returned: its locals and its hasher are gone, the caller may
\* call again
Return(c) ==
  /\ pc[c] = "done"
  /\ pc' = [pc EXCEPT ![c] = "idle"]
  /\ frame' = [frame EXCEPT ![c] = IdleFrame]
  /\ hashers' = [hashers EXCEPT ![HasherOf(c)] = NoHasher]
  /\ UNCHANGED << observed, clientVars >>

\* the same, the caller keeping what it passed and what it got
ReturnObserved(c) ==
  /\ pc[c] = "done"
  /\ observed = Nothing
  /\ observed' = Observation(c)
  /\ pc' = [pc EXCEPT ![c] = "idle"]
  /\ frame' = [frame EXCEPT ![c] = IdleFrame]
  /\ hashers' = [hashers EXCEPT ![HasherOf(c)] = NoHasher]
  /\ UNCHANGED clientVars

(***************************************************************************)
(* Spec: one caller, every input of the universe.                          *)
(***************************************************************************)
VerifyInit(callers) ==
  /\ pc = [c \in callers |-> "idle"]
  /\ frame = [c \in callers |-> IdleFrame]
  /\ hashers = [c \in callers |-> NoHasher]
  /\ observed = Nothing

ClientIdle ==
  /\ cpc = "idle"
  /\ cframe = [op |-> "none"]
  /\ remote = << >>

Init == VerifyInit({1}) /\ ClientIdle

Next ==
  \E c \in {1} :
    \/ Call(c, KeyStrings, Receipts, SigStrings)
    \/ DecodeKey(c)
    \/ ParseKey(c)
    \/ AssertKey(c)
    \/ HashNew(c)
    \/ HashWrite(c)
    \/ HashSum(c)
    \/ DecodeSignature(c)
    \/ Verify(c)
    \/ Return(c)

Spec == Init /\ [][Next]_vars

(***************************************************************************)
(* ConcSpec: NCallers callers calling concurrently and repeatedly, their   *)
(* statements interleaved in any order.                                    *)
(***************************************************************************)
ConcKeyPair == [N |-> 3233, E |-> 17, D |-> 2753]
ConcKeys == { KeyString(PublicKey(ConcKeyPair)), <<12, 0, 4, 12, 40>> }
ConcReceipts == { << >>, <<97>> }
ConcSigs == { StdEncodeToString(GenuineSignature(ConcKeyPair, <<97>>)),
              <<12, 0, 4, 12, 40>> }

ConcInit == VerifyInit(1..NCallers) /\ ClientIdle

ConcNext ==
  \E c \in 1..NCallers :
    \/ Call(c, ConcKeys, ConcReceipts, ConcSigs)
    \/ DecodeKey(c)
    \/ ParseKey(c)
    \/ AssertKey(c)
    \/ HashNew(c)
    \/ HashWrite(c)
    \/ HashSum(c)
    \/ DecodeSignature(c)
    \/ Verify(c)
    \/ Return(c)
    \/ ReturnObserved(c)

ConcSpec == ConcInit /\ [][ConcNext]_vars

(***************************************************************************)
(* The Client operations.  Each builds the publisher service from the      *)
(* client's http client and, when that succeeds, issues one remote call    *)
(* and returns what it returned.                                           *)
(***************************************************************************)
Operations == { "AcknowledgeSubscription", "VerifySubscription", "AcknowledgeProduct",
                "VerifyProduct", "CancelSubscription", "RefundSubscription",
                "RevokeSubscription" }

Contexts == { "ctxBackground", "ctxDeadline" }
PackageNames == { "com.example.a", "com.example.b" }
PurchaseIDs == { "sku1", "sku2" }
Tokens == { "token1", "token2" }

\* what androidpublisher.New may return as its error, and Do() as its own
ConstructionErrors == { "client is nil" }
RemoteErrors == { "context deadline exceeded", "googleapi: Error 410" }

\* the *AcknowledgeRequest argument of the two acknowledge operations
RequestOf(op) ==
  IF op \in { "AcknowledgeSubscription", "AcknowledgeProduct" }
    THEN "acknowledgeRequest" ELSE "none"

\* a Client operation is called with (ctx, packageName, id, token)
ClientCall ==
  /\ cpc = "idle"
  /\ \E op \in Operations, ctx \in Contexts, p \in PackageNames,
        id \in PurchaseIDs, t \in Tokens :
       cframe' = [ op |-> op, ctx |-> ctx, packageName |-> p, id |-> id, token |-> t,
                   req |-> RequestOf(op), service |-> "nil", newErr |-> NoError,
                   result |-> "nil", err |-> NoError ]
  /\ remote' = << >>
  /\ cpc' = "new"
  /\ UNCHANGED verifyVars

\* service, err := androidpublisher.New(c.httpCli); if err != nil { return err }
NewService ==
  /\ cpc = "new"
  /\ \/ /\ cframe' = [cframe EXCEPT !.service = "service"]
        /\ cpc' = "do"
     \/ /\ \E e \in ConstructionErrors :
             cframe' = [cframe EXCEPT !.newErr = e, !.err = e]
        /\ cpc' = "done"
  /\ UNCHANGED << remote, verifyVars >>

\* ps.<method>(a[1], a[2], a[3]).Context(ctx).Do() on the purchases service
\* svc: one call, whose result and error the operation returns as they are
RemoteDo(op, svc, method, ctx, a) ==
  /\ cpc = "do"
  /\ cframe.op = op
  /\ \E e \in RemoteErrors \cup { NoError } :
       /\ remote' = Append(remote, [ service |-> svc, method |-> method, ctx |-> ctx,
                                     args |-> a, req |-> cframe.req, err |-> e ])
       /\ cframe' = [cframe EXCEPT
                       !.err = e,
                       !.result = IF e = NoError /\ method = "get"
                                    THEN "purchase" ELSE "nil"]
  /\ cpc' = "done"
  /\ UNCHANGED verifyVars

AcknowledgeSubscription ==
  RemoteDo("AcknowledgeSubscription", "purchases.subscriptions", "acknowledge",
           cframe.ctx, << cframe.packageName, cframe.id, cframe.token >>)

VerifySubscription ==
  RemoteDo("VerifySubscription", "purchases.subscriptions", "get",
           cframe.ctx, << cframe.packageName, cframe.id, cframe.token >>)

AcknowledgeProduct ==
  RemoteDo("AcknowledgeProduct", "purchases.products", "acknowledge",
           cframe.ctx, << cframe.packageName, cframe.id, cframe.token >>)

\* mutant: the product id and the token change places
VerifyProduct_ArgsSwapped ==
  RemoteDo("VerifyProduct", "purchases.products", "get",
           cframe.ctx, << cframe.packageName, cframe.token, cframe.id >>)

VerifyProduct ==
  RemoteDo("VerifyProduct", "purchases.products", "get",
           cframe.ctx, << cframe.packageName, cframe.id, cframe.token >>)

CancelSubscription ==
  RemoteDo("CancelSubscription", "purchases.subscriptions", "cancel",
           cframe.ctx, << cframe.packageName, cframe.id, cframe.token >>)

RefundSubscription ==
  RemoteDo("RefundSubscription", "purchases.subscriptions", "refund",
           cframe.ctx, << cframe.packageName, cframe.id, cframe.token >>)

RevokeSubscription ==
  RemoteDo("RevokeSubscription", "purchases.subscriptions", "revoke",
           cframe.ctx, << cframe.packageName, cframe.id, cframe.token >>)

\* the operation has returned to its caller
ClientReturn ==
  /\ cpc = "done"
  /\ cpc' = "idle"
  /\ cframe' = [op |-> "none"]
  /\ remote' = << >>
  /\ UNCHANGED verifyVars

ClientInit == VerifyInit({}) /\ ClientIdle

ClientNext ==
  \/ ClientCall
  \/ NewService
  \/ AcknowledgeSubscription
  \/ VerifySubscription
  \/ AcknowledgeProduct
  \/ VerifyProduct
  \/ CancelSubscription
  \/ RefundSubscription
  \/ RevokeSubscription
  \/ ClientReturn

ClientSpec == ClientInit /\ [][ClientNext]_vars

(***************************************************************************)
(* What the inputs of a call are, said without running the call.           *)
(***************************************************************************)
\* standard base64: whole quanta of digits, padding only as the last one or
\* two characters
WellFormedBase64(s) ==
  /\ Len(s) % 4 = 0
  /\ \A i \in 1..Len(s) :
       \/ IsB64Digit(s[i])
       \/ /\ s[i] = PadChar
          /\ i >= Len(s) - 1
          /\ s[Len(s)] = PadChar

ParsedKey(s) == ParsePKIXPublicKey(StdDecodeString(s).bytes)

UnparsableKeyString(s) == WellFormedBase64(s) /\ ParsedKey(s).err
NonRSAKeyString(s) ==
  WellFormedBase64(s) /\ ~ParsedKey(s).err /\ ParsedKey(s).key.alg # "rsa"
RSAKeyString(s) ==
  WellFormedBase64(s) /\ ~ParsedKey(s).err /\ ParsedKey(s).key.alg = "rsa"

Finished(c) == pc[c] \in { "done", "panic" }
Returned(c, valid, err) ==
  pc[c] = "done" /\ frame[c].isValid = valid /\ frame[c].err = err

\* the two sequences have one length and differ in exactly one place
OneByteApart(a, b) ==
  /\ Len(a) = Len(b)
  /\ Cardinality({ i \in 1..Len(a) : a[i] # b[i] }) = 1

(***************************************************************************)
(* C1: a genuine triple (the key the base64 of a marshalled RSA public     *)
(* key, the signature the base64 of the PKCS#1 v1.5 signature of the       *)
(* receipt's SHA-1 digest under the matching private key) is reported      *)
(* valid with a nil error, the empty receipt included.                     *)
(***************************************************************************)
Genuine(c) ==
  \E kp \in KeyPairs :
    /\ frame[c].base64EncodedPublicKey = KeyString(PublicKey(kp))
    /\ frame[c].signature = StdEncodeToString(GenuineSignature(kp, frame[c].receipt))

C1_GenuineTripleIsValid ==
  \A c \in DOMAIN pc :
    Finished(c) /\ Genuine(c) => Returned(c, TRUE, NoError)

C1_Witness ==
  \E c \in DOMAIN pc :
    /\ Genuine(c)
    /\ frame[c].receipt = << >>
    /\ Returned(c, TRUE, NoError)

(***************************************************************************)
(* C2: with an RSA key and a signature that is standard base64, a decoded  *)
(* signature that does not verify against the receipt's SHA-1 digest is    *)
(* reported as (false, nil), never as an error.                            *)
(***************************************************************************)
Mismatch(c) ==
  /\ RSAKeyString(frame[c].base64EncodedPublicKey)
  /\ WellFormedBase64(frame[c].signature)
  /\ ~VerifyPKCS1v15(ParsedKey(frame[c].base64EncodedPublicKey).key,
                     SHA1(frame[c].receipt),
                     StdDecodeString(frame[c].signature).bytes)

C2_MismatchIsInvalidNotError ==
  \A c \in DOMAIN pc :
    Finished(c) /\ Mismatch(c) => Returned(c, FALSE, NoError)

\* the signature is genuine for a receipt one byte away from the one passed
C2_Witness ==
  \E c \in DOMAIN pc, kp \in KeyPairs, r \in Receipts :
    /\ frame[c].base64EncodedPublicKey = KeyString(PublicKey(kp))
    /\ frame[c].signature = StdEncodeToString(GenuineSignature(kp, r))
    /\ OneByteApart(r, frame[c].receipt)
    /\ Mismatch(c)
    /\ Returned(c, FALSE, NoError)

(***************************************************************************)
(* C3: a well-formed key of another algorithm than RSA is reported as the  *)
(* key-parse error, and the call stops there: no hashing, no signature     *)
(* decoding, no check, no (false, nil), no abort.                          *)
(***************************************************************************)
C3_NonRSAKeyIsParseError ==
  \A c \in DOMAIN pc :
    Finished(c) /\ NonRSAKeyString(frame[c].base64EncodedPublicKey)
      => /\ Returned(c, FALSE, ErrParseKey)
         /\ frame[c].steps = << "decodeKey", "parseKey" >>

(***************************************************************************)
(* C4: a key that is not standard base64 is reported as the key-decode     *)
(* error, whatever the receipt and the signature, before anything else is  *)
(* done.                                                                   *)
(***************************************************************************)
C4_BadKeyBase64IsDecodeError ==
  \A c \in DOMAIN pc :
    Finished(c) /\ ~WellFormedBase64(frame[c].base64EncodedPublicKey)
      => /\ Returned(c, FALSE, ErrDecodeKey)
         /\ frame[c].steps = << "decodeKey" >>

C4_Witness ==
  \E c \in DOMAIN pc :
    /\ ~WellFormedBase64(frame[c].base64EncodedPublicKey)
    /\ frame[c].receipt # << >>
    /\ Returned(c, FALSE, ErrDecodeKey)

(***************************************************************************)
(* C5: a key that is standard base64 of bytes that are no public-key       *)
(* structure is reported as the key-parse error, whatever the receipt and  *)
(* the signature.                                                          *)
(***************************************************************************)
C5_UnparsableKeyIsParseError ==
  \A c \in DOMAIN pc :
    Finished(c) /\ UnparsableKeyString(frame[c].base64EncodedPublicKey)
      => Returned(c, FALSE, ErrParseKey)

C5_Witness ==
  \E c \in DOMAIN pc :
    /\ frame[c].base64EncodedPublicKey = StdEncodeToString(<<1, 2, 3>>)
    /\ Returned(c, FALSE, ErrParseKey)

(***************************************************************************)
(* C6: with an RSA key, a signature that is not standard base64 is         *)
(* reported as the signature-decode error, whatever the receipt, and the   *)
(* check is never reached.                                                 *)
(***************************************************************************)
InSteps(c, name) == \E i \in 1..Len(frame[c].steps) : frame[c].steps[i] = name

C6_BadSignatureBase64IsDecodeError ==
  \A c \in DOMAIN pc :
    /\ Finished(c)
    /\ RSAKeyString(frame[c].base64EncodedPublicKey)
    /\ ~WellFormedBase64(frame[c].signature)
    => /\ Returned(c, FALSE, ErrDecodeSignature)
       /\ ~InSteps(c, "verify")

C6_Witness ==
  \E c \in DOMAIN pc :
    /\ RSAKeyString(frame[c].base64EncodedPublicKey)
    /\ ~WellFormedBase64(frame[c].signature)
    /\ Returned(c, FALSE, ErrDecodeSignature)

(***************************************************************************)
(* C7: every call returns, with a non-nil error exactly when an input is   *)
(* malformed (key not base64, key not parsable, key not RSA, signature not *)
(* base64), and then valid is false.                                       *)
(***************************************************************************)
Malformed(c) ==
  \/ ~WellFormedBase64(frame[c].base64EncodedPublicKey)
  \/ UnparsableKeyString(frame[c].base64EncodedPublicKey)
  \/ NonRSAKeyString(frame[c].base64EncodedPublicKey)
  \/ ~WellFormedBase64(frame[c].signature)

C7_ErrorIffMalformed ==
  \A c \in DOMAIN pc :
    Finished(c)
      => /\ pc[c] = "done"
         /\ (frame[c].err # NoError) <=> Malformed(c)
         /\ frame[c].err # NoError => ~frame[c].isValid

(***************************************************************************)
(* C8: two calls with the same arguments return the same result, whatever  *)
(* ran before them and whatever runs beside them.                          *)
(***************************************************************************)
SameArguments(a, b) ==
  /\ a.base64EncodedPublicKey = b.base64EncodedPublicKey
  /\ a.receipt = b.receipt
  /\ a.signature = b.signature

SameResult(a, b) == a.isValid = b.isValid /\ a.err = b.err

C8_Deterministic ==
  \A c \in DOMAIN pc :
    pc[c] = "done"
      => /\ observed.set /\ SameArguments(observed, frame[c])
              => SameResult(observed, frame[c])
         /\ \A d \in DOMAIN pc :
              pc[d] = "done" /\ SameArguments(frame[d], frame[c])
                => SameResult(frame[d], frame[c])

\* an earlier call was recorded, and two callers have just completed calls
\* with its arguments while a third argument list is not involved
C8_Witness ==
  \E c, d \in DOMAIN pc :
    /\ c # d
    /\ pc[c] = "done" /\ pc[d] = "done"
    /\ observed.set
    /\ SameArguments(observed, frame[c])
    /\ SameArguments(frame[d], frame[c])
    /\ frame[c].isValid

(***************************************************************************)
(* C9: the steps run in the order key decode, key parse, hash, signature   *)
(* decode, check, and the call stops at the first that fails: with several *)
(* inputs malformed the error is that of the earliest failing step.        *)
(***************************************************************************)
StepOrder ==
  << "decodeKey", "parseKey", "assertKey", "hashNew", "hashWrite", "hashSum",
     "decodeSig", "verify" >>

FirstFailure(c) ==
  IF ~WellFormedBase64(frame[c].base64EncodedPublicKey) THEN ErrDecodeKey
  ELSE IF \/ UnparsableKeyString(frame[c].base64EncodedPublicKey)
          \/ NonRSAKeyString(frame[c].base64EncodedPublicKey) THEN ErrParseKey
  ELSE ErrDecodeSignature

C9_EarliestFailureReported ==
  \A c \in DOMAIN pc :
    /\ frame[c].steps = SubSeq(StepOrder, 1, Len(frame[c].steps))
    /\ pc[c] = "done" /\ Malformed(c) => Returned(c, FALSE, FirstFailure(c))

(***************************************************************************)
(* C10: a Client operation issues at most one remote call: exactly one,    *)
(* with the caller's context and (package name, id, token) in that order,  *)
(* when the service was constructed, and none when it was not, the         *)
(* construction error being returned; the remote call's error is returned  *)
(* as it is and the call is not repeated.                                  *)
(***************************************************************************)
C10_OneRemoteCall ==
  /\ Len(remote) <= 1
  /\ cpc = "done" =>
       IF cframe.newErr = NoError
         THEN /\ Len(remote) = 1
              /\ remote[1].ctx = cframe.ctx
              /\ remote[1].args = << cframe.packageName, cframe.id, cframe.token >>
              /\ cframe.err = remote[1].err
         ELSE /\ remote = << >>
              /\ cframe.err = cframe.newErr
              /\ cframe.err \in ConstructionErrors

C10_Witness ==
  /\ cpc = "done"
  /\ Len(remote) = 1
  /\ remote[1].err \in RemoteErrors
  /\ cframe.err = remote[1].err
  /\ cframe.id # cframe.token

====
